---- MODULE Spec2Model ----
(***************************************************************************)
(* A model of the MDS projection view engine of biojs-vis-mds              *)
(* (src/lib/mdsvis.js): construction of MDSVis instances, the shared       *)
(* group-name memo, the record binder, grouping and trace building, and    *)
(* the menu-bar transitions, the Plotly configuration trees merged by      *)
(* utils.merge (src/lib/utils.js), the highlight handlers                  *)
(* (src/lib/handlers.js) and the label overlap resolver of the d3 scatter  *)
(* plot (src/lib/scatterplot.js).  The stored callbacks                    *)
(* (initEventHandlers) are not part of the state modelled here.            *)
(***************************************************************************)
EXTENDS Integers, Sequences, FiniteSets, TLC

VARIABLES
  insts,      \* the MDSVis objects the caller holds, in creation order
  groups,     \* the `groups` variable closed over by MDSVis.prototype.getGroupNames
  plots,      \* the plot divs created by draw(), in creation order
  children,   \* children[h]: the elements appended to host element h
  lastCall,   \* the last external event: its operation, arguments and outcome
  heap,       \* the objects of a caller of utils.merge and the reference it got back
  scatter,    \* the ScatterPlot object of src/lib/scatterplot.js, once constructed
  defaults    \* the module-level defaultLayout, defaultConfig and defaultTrace objects

vars == <<insts, groups, plots, children, lastCall, heap, scatter, defaults>>

-----------------------------------------------------------------------------
(* Bounds of the exploration.                                              *)

MaxDim == 4        \* largest dimensionality of the input points
MaxPoints == 3     \* largest number of points in a dataset
MaxShared == 2     \* instances created on one page
MaxDraws == 1      \* draw() calls per instance

-----------------------------------------------------------------------------
(* JavaScript values.  An optional value (`undefined` or a value) is a     *)
(* sequence of length 0 or 1.  A property value of a data record is tagged *)
(* as a coordinate vector or as a string.                                  *)

None == <<>>
Some(v) == <<v>>
IsSome(o) == Len(o) > 0
Val(o) == o[1]

Vec(c) == [t |-> "vec", v |-> c, s |-> ""]
Str(x) == [t |-> "str", v |-> <<>>, s |-> x]

Hosts == {"root1", "root2"}

Range(s) == {s[k] : k \in 1..Len(s)}

-----------------------------------------------------------------------------
(* Configuration trees.  An object is the function from its property names *)
(* to their values.  A value is a node [t, s, m]: t its kind, s the text   *)
(* of a scalar, m the properties of an object or the elements of an array  *)
(* (under the property names "0", "1", ...).                               *)

\* {}: the object without properties
NoProps == <<>>

TStr(x) == [t |-> "str", s |-> x, m |-> NoProps]
TNum(text) == [t |-> "num", s |-> text, m |-> NoProps]
TInt(n) == TNum(ToString(n))
TBool(b) == [t |-> "bool", s |-> IF b THEN "true" ELSE "false", m |-> NoProps]
TNull == [t |-> "null", s |-> "null", m |-> NoProps]
TMap(props) == [t |-> "map", s |-> "", m |-> props]
TArr(elems) ==
  [t |-> "arr", s |-> "",
   m |-> [k \in {ToString(i - 1) : i \in 1..Len(elems)} |->
            elems[CHOOSE i \in 1..Len(elems) : ToString(i - 1) = k]]]

\* val && typeof val === 'object' && val.constructor === Object
IsPlainObject(val) == val.t = "map"

\* a plausible slip (the earlier variant of merge): every override value whose
\* typeof is 'object' is merged into, arrays included
RECURSIVE merge_typeofObject(_, _)
merge_typeofObject(obj, src) ==
  [prop \in DOMAIN obj \cup DOMAIN src |->
     IF prop \notin DOMAIN src THEN obj[prop]
     ELSE IF src[prop].t \in {"map", "arr"}
     THEN [t |-> IF prop \in DOMAIN obj THEN obj[prop].t ELSE src[prop].t,
           s |-> IF prop \in DOMAIN obj THEN obj[prop].s ELSE "",
           m |-> merge_typeofObject(IF prop \in DOMAIN obj THEN obj[prop].m ELSE NoProps,
                                    src[prop].m)]
     ELSE src[prop]]

\* a plausible slip: the fresh {} stays empty, the override's object is not
\* merged into it
RECURSIVE merge_emptyFresh(_, _)
merge_emptyFresh(obj, src) ==
  [prop \in DOMAIN obj \cup DOMAIN src |->
     IF prop \notin DOMAIN src THEN obj[prop]
     ELSE LET val == src[prop]
              valIsObject == IsPlainObject(val)
              objPropIsObject == prop \in DOMAIN obj /\ IsPlainObject(obj[prop])
          IN IF valIsObject /\ objPropIsObject
             THEN TMap(merge_emptyFresh(obj[prop].m, val.m))
             ELSE IF valIsObject THEN TMap(NoProps)
             ELSE val]

\* utils.merge(obj, src): the value of obj when the call returns.  Each
\* property of src is merged into obj: a plain object into the plain object
\* obj has there, or into a fresh {}, anything else assigned as it is.
RECURSIVE merge(_, _)
merge(obj, src) ==
  [prop \in DOMAIN obj \cup DOMAIN src |->
     IF prop \notin DOMAIN src THEN obj[prop]
     ELSE LET val == src[prop]
              valIsObject == IsPlainObject(val)
              objPropIsObject == prop \in DOMAIN obj /\ IsPlainObject(obj[prop])
          IN IF valIsObject /\ objPropIsObject THEN TMap(merge(obj[prop].m, val.m))
             ELSE IF valIsObject THEN TMap(merge(NoProps, val.m))
             ELSE val]

\* JSON.parse(JSON.stringify(obj)): a fresh copy; properties whose value is
\* undefined are left out
RECURSIVE JSONclone(_)
JSONclone(obj) ==
  [prop \in {q \in DOMAIN obj : obj[q].t # "undef"} |->
     IF obj[prop].t \in {"map", "arr"}
     THEN [obj[prop] EXCEPT !.m = JSONclone(obj[prop].m)]
     ELSE obj[prop]]

defaultLayout ==
  [title |-> TStr("MDS Plot"),
   width |-> TInt(700),
   height |-> TInt(450),
   hovermode |-> TStr("closest"),
   xaxis |-> TMap([title |-> TStr("Dimension 1"),
                   showgrid |-> TBool(FALSE),
                   zeroline |-> TBool(TRUE)]),
   yaxis |-> TMap([title |-> TStr("Dimension 2"),
                   showgrid |-> TBool(FALSE),
                   zeroline |-> TBool(TRUE)])]

defaultConfig ==
  [modeBarButtonsToRemove |->
     TArr(<<TStr("select2d"), TStr("lasso2d"), TStr("autoScale2d"),
            TStr("hoverClosestCartesian"), TStr("hoverCompareCartesian")>>)]

defaultTrace ==
  [type |-> TStr("scatter"),
   textposition |-> TStr("middle right"),
   hoverinfo |-> TStr("text"),
   marker |-> TMap([size |-> TInt(10)])]

\* layout[axis].title = title, for an axis that is an object
SetTitle(layout, axis, title) ==
  [layout EXCEPT ![axis] =
     TMap([k \in DOMAIN layout[axis].m \cup {"title"} |->
             IF k = "title" THEN TStr(title) ELSE layout[axis].m[k]])]

\* this.layout.xaxis.title = 'Dimension ' + this.xDim, and the same for y
SetAxisTitles(layout, xDim, yDim) ==
  SetTitle(SetTitle(layout, "xaxis", "Dimension " \o ToString(xDim)),
           "yaxis", "Dimension " \o ToString(yDim))

\* `_layout || {}`
OrEmpty(o) == IF IsSome(o) THEN Val(o) ELSE NoProps

\* a plausible slip: the trace override is merged into the layout as well
initLayoutAndConfig_shared(xDim, yDim, _layout, _configOptions, _traceConfig) ==
  [layout |-> merge(merge(SetAxisTitles(JSONclone(defaults.layout), xDim, yDim),
                          OrEmpty(_layout)), OrEmpty(_traceConfig)),
   configOptions |-> merge(JSONclone(defaults.configOptions), OrEmpty(_configOptions)),
   traceConfig |-> merge(JSONclone(defaults.traceConfig), OrEmpty(_traceConfig))]

\* MDSVis.prototype.initLayoutAndConfig: the three fields it sets; each is
\* merged into a fresh copy of a module-level object, which it leaves alone
initLayoutAndConfig(xDim, yDim, _layout, _configOptions, _traceConfig) ==
  [layout |-> merge(SetAxisTitles(JSONclone(defaults.layout), xDim, yDim),
                    OrEmpty(_layout)),
   configOptions |-> merge(JSONclone(defaults.configOptions), OrEmpty(_configOptions)),
   traceConfig |-> merge(JSONclone(defaults.traceConfig), OrEmpty(_traceConfig))]

-----------------------------------------------------------------------------
(* Dimension-pair enumeration and validation.                              *)

RECURSIVE dimensionPairsFrom(_, _, _, _)
dimensionPairsFrom(ndim, i, j, pairs) ==
  IF i > ndim THEN pairs
  ELSE IF j > ndim THEN dimensionPairsFrom(ndim, i + 1, i + 2, pairs)
  ELSE dimensionPairsFrom(ndim, i, j + 1, Append(pairs, <<i, j>>))

\* a plausible slip: the inner loop starts at j = i instead of j = i+1
RECURSIVE dimensionPairsFromI(_, _, _, _)
dimensionPairsFromI(ndim, i, j, pairs) ==
  IF i > ndim THEN pairs
  ELSE IF j > ndim THEN dimensionPairsFromI(ndim, i + 1, i + 1, pairs)
  ELSE dimensionPairsFromI(ndim, i, j + 1, Append(pairs, <<i, j>>))

dimensionPairs_jFromI(ndim) == dimensionPairsFromI(ndim, 1, 1, <<>>)

dimensionPairs(ndim) == dimensionPairsFrom(ndim, 1, 2, <<>>)

\* JSON.stringify of a two-element array of integers
JSONstringifyPair(p) == "[" \o ToString(p[1]) \o "," \o ToString(p[2]) \o "]"

\* _.map(validDims, JSON.stringify)
StringifyPairs(pairs) == [k \in 1..Len(pairs) |-> JSONstringifyPair(pairs[k])]

\* Array.prototype.indexOf(...) === -1
NotIn(strings, candidate) == \A k \in 1..Len(strings) : strings[k] # candidate

\* a plausible slip: only the range of the indices is validated
initDimensions_rangeOnly(ndim, _xDim, _yDim) ==
  IF IsSome(_xDim) /\ IsSome(_yDim)
  THEN IF Val(_xDim) \in 1..ndim /\ Val(_yDim) \in 1..ndim
       THEN [err |-> "none", xDim |-> Val(_xDim), yDim |-> Val(_yDim)]
       ELSE [err |-> "InvalidDimensionPair", xDim |-> 1, yDim |-> 2]
  ELSE IF IsSome(_xDim) \/ IsSome(_yDim)
  THEN [err |-> "IncompleteDimensionSelection", xDim |-> 1, yDim |-> 2]
  ELSE [err |-> "none", xDim |-> 1, yDim |-> 2]

\* a plausible slip: a half-specified pair falls back to the default pair
initDimensions_fallback(ndim, _xDim, _yDim) ==
  IF IsSome(_xDim) /\ IsSome(_yDim)
  THEN LET validDimStrings == StringifyPairs(dimensionPairs(ndim))
           candidate == JSONstringifyPair(<<Val(_xDim), Val(_yDim)>>)
       IN IF NotIn(validDimStrings, candidate)
          THEN [err |-> "InvalidDimensionPair", xDim |-> 1, yDim |-> 2]
          ELSE [err |-> "none", xDim |-> Val(_xDim), yDim |-> Val(_yDim)]
  ELSE [err |-> "none", xDim |-> 1, yDim |-> 2]

\* MDSVis.prototype.initDimensions: the error thrown (or "none") and the
\* values of this.xDim, this.yDim when it returns or throws
initDimensions(ndim, _xDim, _yDim) ==
  IF IsSome(_xDim) /\ IsSome(_yDim)
  THEN LET validDimStrings == StringifyPairs(dimensionPairs(ndim))
           candidate == JSONstringifyPair(<<Val(_xDim), Val(_yDim)>>)
       IN IF NotIn(validDimStrings, candidate)
          THEN [err |-> "InvalidDimensionPair", xDim |-> 1, yDim |-> 2]
          ELSE [err |-> "none", xDim |-> Val(_xDim), yDim |-> Val(_yDim)]
  ELSE IF IsSome(_xDim) \/ IsSome(_yDim)
  THEN [err |-> "IncompleteDimensionSelection", xDim |-> 1, yDim |-> 2]
  ELSE [err |-> "none", xDim |-> 1, yDim |-> 2]

\* a plausible slip: labels shown by default
initShowLabels_shown(_showLabels) ==
  IF IsSome(_showLabels) THEN Val(_showLabels) ELSE TRUE

\* MDSVis.prototype.initShowLabels
initShowLabels(_showLabels) ==
  IF IsSome(_showLabels) THEN Val(_showLabels) ELSE FALSE

-----------------------------------------------------------------------------
(* Record binder and group names.                                          *)

\* The metadata field names used, in the order Array.prototype.sort() gives
\* them (ascending UTF-16 code units).
FieldOrder == <<"celltype", "coord", "tissue">>

\* Array.prototype.sort() of a set of field names
SortNames(S) == SelectSeq(FieldOrder, LAMBDA n : n \in S)

\* the own enumerable keys of metadata[0] (none when metadata[0] is undefined)
FirstRecordKeys(metadata) ==
  IF Len(metadata) = 0 THEN {} ELSE DOMAIN metadata[1]

\* MDSVis.prototype.getGroupNames: `memo` is the closure variable `groups`
\* shared by every instance; returns the names and the new closure variable
getGroupNames(memo, metadataSupplied, metadata) ==
  IF IsSome(memo)
  THEN [ret |-> Val(memo), memo |-> memo]
  ELSE LET computed == IF metadataSupplied
                       THEN SortNames(FirstRecordKeys(metadata))
                       ELSE <<>>
       IN [ret |-> computed, memo |-> Some(computed)]

Undef == [t |-> "undef", v |-> <<>>, s |-> ""]

\* _.zip(coords, metadata)[k]: the k-th elements, undefined past an end
ZipAt(coords, metadata, k) ==
  [c |-> IF k <= Len(coords) THEN Vec(coords[k]) ELSE Undef,
   m |-> IF k <= Len(metadata)
         THEN [f \in DOMAIN metadata[k] |-> Str(metadata[k][f])]
         ELSE [f \in {} |-> Undef]]

\* _.extend(dst, src): the properties of src are copied over those of dst
Extend(dst, src) ==
  [p \in DOMAIN dst \cup DOMAIN src |-> IF p \in DOMAIN src THEN src[p] ELSE dst[p]]

Max(a, b) == IF a >= b THEN a ELSE b

\* the record binder of initData: zip the coordinates with the metadata and
\* combine each pair into one record
BindRecords(coords, metadata) ==
  [k \in 1..Max(Len(coords), Len(metadata)) |->
     Extend([coord |-> ZipAt(coords, metadata, k).c], ZipAt(coords, metadata, k).m)]

\* MDSVis.prototype.initData: the fields it sets and the new closure variable
initData(coords, _metadata, _groupByKey, memo) ==
  IF ~IsSome(_metadata)
  THEN [metadata |-> <<>>, metadataSupplied |-> FALSE,
        data |-> [k \in 1..Len(coords) |-> [coord |-> Vec(coords[k])]],
        groupByKey |-> None, memo |-> memo]
  ELSE LET names == getGroupNames(memo, TRUE, Val(_metadata))
           first == IF Len(names.ret) > 0 THEN Some(names.ret[1]) ELSE None
       IN [metadata |-> Val(_metadata), metadataSupplied |-> TRUE,
           data |-> BindRecords(coords, Val(_metadata)),
           groupByKey |-> IF IsSome(_groupByKey) THEN _groupByKey ELSE first,
           memo |-> names.memo]

-----------------------------------------------------------------------------
(* Grouping engine and trace builder.                                      *)

\* the largest integer that occurs as a property value in the inputs
MaxKeyNumber == Max(10, (MaxPoints + 1) * (MaxDim + 1))

\* Array.prototype.join(",") of a vector of integers (String(array))
RECURSIVE JoinFrom(_, _)
JoinFrom(c, k) ==
  IF k > Len(c) THEN ""
  ELSE IF k = Len(c) THEN ToString(c[k])
  ELSE ToString(c[k]) \o "," \o JoinFrom(c, k + 1)

\* String(value) of a tagged property value
ToKeyString(val) ==
  IF val.t = "str" THEN val.s
  ELSE IF val.t = "vec" THEN JoinFrom(val.v, 1)
  ELSE "undefined"

\* the object key under which _.groupBy files a record: the string of the
\* record's property `key`; with an undefined key the iteratee is the
\* identity and the key is the string of the record itself
GroupKeyOf(rec, key) ==
  IF ~IsSome(key) THEN "[object Object]"
  ELSE IF Val(key) \in DOMAIN rec THEN ToKeyString(rec[Val(key)])
  ELSE "undefined"

\* position of the entry with key kv in result, 0 when there is none
FindKey(result, kv) ==
  IF \E p \in 1..Len(result) : result[p].key = kv
  THEN CHOOSE p \in 1..Len(result) : result[p].key = kv
  ELSE 0

\* a plausible slip: a record whose key is already present replaces the group
RECURSIVE groupByReplace(_, _, _, _)
groupByReplace(data, key, k, result) ==
  IF k > Len(data) THEN result
  ELSE LET kv == GroupKeyOf(data[k], key)
           p == FindKey(result, kv)
       IN IF p = 0
          THEN groupByReplace(data, key, k + 1,
                              Append(result, [key |-> kv, members |-> <<k>>]))
          ELSE groupByReplace(data, key, k + 1,
                              [result EXCEPT ![p].members = <<k>>])

\* _.groupBy: scan the records in index order, push record k (named by its
\* index) onto the list filed under its key; entries in insertion order
RECURSIVE groupByFrom(_, _, _, _)
groupByFrom(data, key, k, result) ==
  IF k > Len(data) THEN result
  ELSE LET kv == GroupKeyOf(data[k], key)
           p == FindKey(result, kv)
       IN IF p = 0
          THEN groupByFrom(data, key, k + 1,
                           Append(result, [key |-> kv, members |-> <<k>>]))
          ELSE groupByFrom(data, key, k + 1,
                           [result EXCEPT ![p].members = Append(@, k)])

\* is the key a canonical array index (an integer-like property name)?
IsArrayIndex(kv) == \E n \in 0..MaxKeyNumber : ToString(n) = kv

\* the entries with integer-like keys, in ascending numeric order
RECURSIVE IndexEntriesFrom(_, _)
IndexEntriesFrom(result, n) ==
  IF n > MaxKeyNumber THEN <<>>
  ELSE SelectSeq(result, LAMBDA e : e.key = ToString(n))
         \o IndexEntriesFrom(result, n + 1)

\* the order in which _.map enumerates the own keys of the object built by
\* _.groupBy: integer-like keys ascending, then the others as inserted
OwnKeyOrder(result) ==
  IndexEntriesFrom(result, 0) \o SelectSeq(result, LAMBDA e : ~IsArrayIndex(e.key))

groupBy_replace(data, key) == OwnKeyOrder(groupByReplace(data, key, 1, <<>>))

groupBy(data, key) == OwnKeyOrder(groupByFrom(data, key, 1, <<>>))

\* the value read where a number is expected but none is there: a character
\* of a string, or undefined
NotANumber == 0 - 1

\* val.coord[d-1] for a 1-offset dimension d
CoordAt(rec, d) ==
  IF rec.coord.t = "vec" /\ d \in 1..Len(rec.coord.v) THEN rec.coord.v[d]
  ELSE NotANumber

\* an array of numbers as a configuration-tree value
Points(numbers) == TArr([k \in 1..Len(numbers) |-> TInt(numbers[k])])

\* MDSVis.prototype.traceFromGroup; `members` are the indices of the group's
\* records in this.data.  The trace is an object: the function from its
\* property names to their values.
traceFromGroup(inst, members, groupname) ==
  LET xPoints == [m \in 1..Len(members) |-> CoordAt(inst.data[members[m]], inst.xDim)]
      yPoints == [m \in 1..Len(members) |-> CoordAt(inst.data[members[m]], inst.yDim)]
      trace == [x |-> Points(xPoints),
                y |-> Points(yPoints),
                mode |-> TStr(IF inst.showLabels THEN "markers+text" ELSE "markers"),
                name |-> TStr(groupname \o " (" \o ToString(Len(xPoints)) \o ")"),
                text |-> TStr(groupname)]
  IN Extend(trace, inst.traceConfig)

\* the groups getTraces builds its traces from (the local `groups` of
\* getTraces, or the whole data under the name 'all')
TraceGroups(inst) ==
  IF inst.metadataSupplied
  THEN groupBy(inst.data, inst.groupByKey)
  ELSE <<[key |-> "all", members |-> [k \in 1..Len(inst.data) |-> k]]>>

\* MDSVis.prototype.getTraces
getTraces(inst) ==
  LET g == TraceGroups(inst)
  IN [t \in 1..Len(g) |-> traceFromGroup(inst, g[t].members, g[t].key)]

-----------------------------------------------------------------------------
(* Construction.                                                           *)

\* `opts || {}`: every option undefined
EmptyOpts ==
  [xDim |-> None, yDim |-> None, showLabels |-> None,
   metadata |-> None, groupByKey |-> None,
   layout |-> None, configOptions |-> None, traceConfig |-> None]

NoArgs == [el |-> None, coords |-> None, opts |-> None]

\* a plausible slip: the coordinates are checked before the root element
MDSVis_coordsFirst(a, memo) ==
  IF ~IsSome(a.coords) \/ ~IsSome(a.el)
  THEN [err |-> IF ~IsSome(a.coords) THEN "MissingCoordinates" ELSE "MissingHost",
        inst |-> None, memo |-> memo]
  ELSE IF Len(Val(a.coords)) = 0
  THEN [err |-> "TypeError", inst |-> None, memo |-> memo]
  ELSE LET coords == Val(a.coords)
           ndim == Len(coords[1])
           opts == IF IsSome(a.opts) THEN Val(a.opts) ELSE EmptyOpts
           dims == initDimensions(ndim, opts.xDim, opts.yDim)
           d == initData(coords, opts.metadata, opts.groupByKey, memo)
           cfg == initLayoutAndConfig(dims.xDim, dims.yDim, opts.layout,
                                      opts.configOptions, opts.traceConfig)
       IN IF dims.err # "none"
          THEN [err |-> dims.err, inst |-> None, memo |-> memo]
          ELSE [err |-> "none",
                inst |-> Some([rootDiv |-> Val(a.el), coords |-> coords,
                               ndim |-> ndim, xDim |-> dims.xDim, yDim |-> dims.yDim,
                               showLabels |-> initShowLabels(opts.showLabels),
                               metadata |-> d.metadata,
                               metadataSupplied |-> d.metadataSupplied,
                               data |-> d.data, groupByKey |-> d.groupByKey,
                               layout |-> cfg.layout,
                               configOptions |-> cfg.configOptions,
                               traceConfig |-> cfg.traceConfig,
                               plotDiv |-> 0]),
                memo |-> d.memo]

\* The MDSVis constructor: the error it throws (or "none"), the object it
\* returns, and the new value of the closure variable of getGroupNames.
\* Reading coords[0].length of an empty array throws a TypeError.
MDSVis(a, memo) ==
  IF ~IsSome(a.el)
  THEN [err |-> "MissingHost", inst |-> None, memo |-> memo]
  ELSE IF ~IsSome(a.coords)
  THEN [err |-> "MissingCoordinates", inst |-> None, memo |-> memo]
  ELSE IF Len(Val(a.coords)) = 0
  THEN [err |-> "TypeError", inst |-> None, memo |-> memo]
  ELSE LET coords == Val(a.coords)
           ndim == Len(coords[1])
           opts == IF IsSome(a.opts) THEN Val(a.opts) ELSE EmptyOpts
           dims == initDimensions(ndim, opts.xDim, opts.yDim)
           d == initData(coords, opts.metadata, opts.groupByKey, memo)
           cfg == initLayoutAndConfig(dims.xDim, dims.yDim, opts.layout,
                                      opts.configOptions, opts.traceConfig)
       IN IF dims.err # "none"
          THEN [err |-> dims.err, inst |-> None, memo |-> memo]
          ELSE [err |-> "none",
                inst |-> Some([rootDiv |-> Val(a.el), coords |-> coords,
                               ndim |-> ndim, xDim |-> dims.xDim, yDim |-> dims.yDim,
                               showLabels |-> initShowLabels(opts.showLabels),
                               metadata |-> d.metadata,
                               metadataSupplied |-> d.metadataSupplied,
                               data |-> d.data, groupByKey |-> d.groupByKey,
                               layout |-> cfg.layout,
                               configOptions |-> cfg.configOptions,
                               traceConfig |-> cfg.traceConfig,
                               plotDiv |-> 0]),
                memo |-> d.memo]

\* a plausible slip: the constructor already creates the plot element and
\* appends it to the root element
Create_touchesHost(a, limit) ==
  /\ Len(insts) < limit
  /\ LET r == MDSVis(a, groups)
     IN /\ insts' = IF r.err = "none" THEN Append(insts, Val(r.inst)) ELSE insts
        /\ groups' = r.memo
        /\ lastCall' = [op |-> "create", args |-> a, err |-> r.err,
                        inst |-> IF r.err = "none" THEN Len(insts) + 1 ELSE 0]
        /\ children' = IF r.err = "none"
                       THEN [children EXCEPT ![Val(r.inst).rootDiv] =
                               Append(@, [kind |-> "plot", plot |-> 0,
                                          owner |-> Len(insts) + 1,
                                          dimOptions |-> <<>>, groupOptions |-> None,
                                          checkbox |-> None])]
                       ELSE children
  /\ UNCHANGED <<plots, heap, scatter, defaults>>

\* a plausible slip: the overrides are merged into the module-level objects
\* themselves, not into copies of them
Create_sharedDefaults(a, limit) ==
  /\ Len(insts) < limit
  /\ LET r == MDSVis(a, groups)
     IN /\ insts' = IF r.err = "none" THEN Append(insts, Val(r.inst)) ELSE insts
        /\ groups' = r.memo
        /\ lastCall' = [op |-> "create", args |-> a, err |-> r.err,
                        inst |-> IF r.err = "none" THEN Len(insts) + 1 ELSE 0]
        /\ defaults' = IF r.err = "none"
                       THEN [layout |-> Val(r.inst).layout,
                             configOptions |-> Val(r.inst).configOptions,
                             traceConfig |-> Val(r.inst).traceConfig]
                       ELSE defaults
  /\ UNCHANGED <<plots, children, heap, scatter>>

\* module.exports.create(el, coords, opts), while fewer than `limit`
\* instances exist
Create(a, limit) ==
  /\ Len(insts) < limit
  /\ LET r == MDSVis(a, groups)
     IN /\ insts' = IF r.err = "none" THEN Append(insts, Val(r.inst)) ELSE insts
        /\ groups' = r.memo
        /\ lastCall' = [op |-> "create", args |-> a, err |-> r.err,
                        inst |-> IF r.err = "none" THEN Len(insts) + 1 ELSE 0]
  /\ UNCHANGED <<plots, children, heap, scatter, defaults>>

-----------------------------------------------------------------------------
(* Drawing and the menu-bar transitions.                                   *)

Draws(i) == Cardinality({p \in 1..Len(plots) : plots[p].owner = i})

\* the element draw() creates to hold the plot
PlotChild(p, i) ==
  [kind |-> "plot", plot |-> p, owner |-> i,
   dimOptions |-> <<>>, groupOptions |-> None, checkbox |-> None]

\* MDSVis.prototype.createMenuBar: the dimension selector, and with metadata
\* the group selector and the show-labels checkbox
MenuBarChild(i, names) ==
  [kind |-> "menubar", plot |-> 0, owner |-> i,
   dimOptions |-> dimensionPairs(insts[i].ndim),
   groupOptions |-> IF insts[i].metadataSupplied THEN Some(names) ELSE None,
   checkbox |-> IF insts[i].metadataSupplied THEN Some(insts[i].showLabels) ELSE None]

\* MDSVis.prototype.draw
Draw(i) ==
  /\ i \in 1..Len(insts)
  /\ Draws(i) < MaxDraws
  /\ LET inst == insts[i]
         p == Len(plots) + 1
         names == getGroupNames(groups, inst.metadataSupplied, inst.metadata)
     IN /\ insts' = [insts EXCEPT ![i].plotDiv = p]
        /\ groups' = IF inst.metadataSupplied THEN names.memo ELSE groups
        /\ children' = [children EXCEPT ![inst.rootDiv] =
                          @ \o <<PlotChild(p, i), MenuBarChild(i, names.ret)>>]
        /\ plots' = Append(plots, [owner |-> i, host |-> inst.rootDiv,
                                   data |-> getTraces(inst),
                                   grp |-> TraceGroups(inst),
                                   layout |-> inst.layout,
                                   config |-> inst.configOptions])
  /\ lastCall' = [op |-> "draw", args |-> NoArgs, err |-> "none", inst |-> i]
  /\ UNCHANGED <<heap, scatter, defaults>>

\* MDSVis.prototype.update, the engine: the axis titles are written into
\* this.layout
updateLayout(inst) ==
  [inst EXCEPT !.layout = SetAxisTitles(inst.layout, inst.xDim, inst.yDim)]

\* MDSVis.prototype.update, the plot: the traces of the current plot are
\* recomputed and its layout is this.layout
update(inst) ==
  [plots EXCEPT ![inst.plotDiv].data = getTraces(inst),
                ![inst.plotDiv].grp = TraceGroups(inst),
                ![inst.plotDiv].layout = updateLayout(inst).layout]

\* a plausible slip: the two indices of the selected pair are taken in the
\* wrong order
DimChange_swapped(h, c, k) ==
  /\ c \in 1..Len(children[h])
  /\ k \in 1..Len(children[h][c].dimOptions)
  /\ LET i == children[h][c].owner
         pair == children[h][c].dimOptions[k]
         inst == [insts[i] EXCEPT !.xDim = pair[2], !.yDim = pair[1]]
     IN /\ insts' = [insts EXCEPT ![i] = updateLayout(inst)]
        /\ plots' = update(inst)
        /\ lastCall' = [op |-> "dimChange", args |-> NoArgs, err |-> "none", inst |-> i]
  /\ UNCHANGED <<groups, children, heap, scatter, defaults>>

\* the 'change' listener of a dimension selector (createDimSelector)
DimChange(h, c, k) ==
  /\ c \in 1..Len(children[h])
  /\ k \in 1..Len(children[h][c].dimOptions)
  /\ LET i == children[h][c].owner
         pair == children[h][c].dimOptions[k]
         inst == [insts[i] EXCEPT !.xDim = pair[1], !.yDim = pair[2]]
     IN /\ insts' = [insts EXCEPT ![i] = updateLayout(inst)]
        /\ plots' = update(inst)
        /\ lastCall' = [op |-> "dimChange", args |-> NoArgs, err |-> "none", inst |-> i]
  /\ UNCHANGED <<groups, children, heap, scatter, defaults>>

\* the same listener when the pair asked for is not among the options of the
\* selector (`selector.value = '[2,1]'` leaves selectedIndex at -1): reading
\* `.value` of selector.options[-1], which is undefined, throws a TypeError
\* before anything is assigned
DimChangeUnlisted(h, c, pair) ==
  /\ c \in 1..Len(children[h])
  /\ children[h][c].kind = "menubar"
  /\ NotIn(StringifyPairs(children[h][c].dimOptions), JSONstringifyPair(pair))
  /\ lastCall' = [op |-> "dimChange",
                  args |-> [NoArgs EXCEPT !.opts =
                              Some([EmptyOpts EXCEPT !.xDim = Some(pair[1]),
                                                     !.yDim = Some(pair[2])])],
                  err |-> "TypeError", inst |-> children[h][c].owner]
  /\ UNCHANGED <<insts, groups, plots, children, heap, scatter, defaults>>

\* a plausible slip: choosing a group key puts the axes back to the first pair
GroupChange_resetsPair(h, c, k) ==
  /\ c \in 1..Len(children[h])
  /\ IsSome(children[h][c].groupOptions)
  /\ k \in 1..Len(Val(children[h][c].groupOptions))
  /\ LET i == children[h][c].owner
         inst == [insts[i] EXCEPT !.groupByKey = Some(Val(children[h][c].groupOptions)[k]),
                                  !.xDim = 1, !.yDim = 2]
     IN /\ insts' = [insts EXCEPT ![i] = updateLayout(inst)]
        /\ plots' = update(inst)
        /\ lastCall' = [op |-> "groupChange", args |-> NoArgs, err |-> "none", inst |-> i]
  /\ UNCHANGED <<groups, children, heap, scatter, defaults>>

\* the 'change' listener of a group selector (createGroupSelector)
GroupChange(h, c, k) ==
  /\ c \in 1..Len(children[h])
  /\ IsSome(children[h][c].groupOptions)
  /\ k \in 1..Len(Val(children[h][c].groupOptions))
  /\ LET i == children[h][c].owner
         inst == [insts[i] EXCEPT !.groupByKey = Some(Val(children[h][c].groupOptions)[k])]
     IN /\ insts' = [insts EXCEPT ![i] = updateLayout(inst)]
        /\ plots' = update(inst)
        /\ lastCall' = [op |-> "groupChange", args |-> NoArgs, err |-> "none", inst |-> i]
  /\ UNCHANGED <<groups, children, heap, scatter, defaults>>

\* the 'change' listener of the show-labels checkbox (createShowLabelsCheckbox)
LabelToggle(h, c) ==
  /\ c \in 1..Len(children[h])
  /\ IsSome(children[h][c].checkbox)
  /\ LET i == children[h][c].owner
         checked == ~Val(children[h][c].checkbox)
         inst == [insts[i] EXCEPT !.showLabels = checked]
     IN /\ insts' = [insts EXCEPT ![i] = updateLayout(inst)]
        /\ children' = [children EXCEPT ![h][c].checkbox = Some(checked)]
        /\ plots' = update(inst)
        /\ lastCall' = [op |-> "labelToggle", args |-> NoArgs, err |-> "none", inst |-> i]
  /\ UNCHANGED <<groups, heap, scatter, defaults>>


-----------------------------------------------------------------------------
(* A caller of utils.merge.                                                *)

\* merge(base, override) called on two objects of the caller: the object
\* passed as obj is changed in place, and the reference returned is obj
\* itself (`return obj`)
MergeCall(base, override) ==
  /\ heap.op = "init"
  /\ heap' = [op |-> "merge", before |-> base, obj |-> merge(base, override),
              src |-> override, ret |-> "obj"]
  /\ UNCHANGED <<insts, groups, plots, children, lastCall, scatter, defaults>>

\* merge(merge(base, override), third): the tree the first call returned is
\* the obj of a second call
MergeAgain(third) ==
  /\ heap.op = "merge"
  /\ heap' = [op |-> "merge2", before |-> heap[heap.ret],
              obj |-> merge(heap[heap.ret], third), src |-> third, ret |-> "obj"]
  /\ UNCHANGED <<insts, groups, plots, children, lastCall, scatter, defaults>>

\* result[prop] = val, through the reference that merge returned
AssignResult(prop, val) ==
  /\ heap.op = "merge"
  /\ heap' = [heap EXCEPT ![heap.ret] = Extend(@, [q \in {prop} |-> val]),
                          !.op = "assign"]
  /\ UNCHANGED <<insts, groups, plots, children, lastCall, scatter, defaults>>


-----------------------------------------------------------------------------
(* The d3 scatter plot (src/lib/scatterplot.js) and its label overlap      *)
(* resolver.  A label is [name, text, x, y, w, h, opacity]: the name of    *)
(* its datum, the text it shows, the translation of its transform, and the *)
(* extent of its bounding box while it shows its name.                     *)

\* slight margin outside the immediate text box
delta == 2

\* this.getBBox() of a label: a label without text has no extent
BBox(label) ==
  IF label.text = "" THEN [width |-> 0, height |-> 0]
  ELSE [width |-> label.w, height |-> label.h]

\* the inner loop of setOverlappingLabelText: every label b = label[j] against
\* a = label[i] with the box (xa0, ya0)-(xa1, ya1); st is the labels and the
\* local hiddenLabels
RECURSIVE ScanB(_, _, _, _)
ScanB(st, i, j, box) ==
  IF j > Len(st.label) THEN st
  ELSE LET a == st.label[i]
           b == st.label[j]
           xb0 == b.x
           yb0 == b.y
       IN IF i = j \/ a.text # b.text THEN ScanB(st, i, j + 1, box)
          ELSE IF (xb0 - box.xa0 # 0) /\ xb0 < box.xa1 /\ yb0 > box.ya0 /\ yb0 < box.ya1
          THEN ScanB([label |-> [st.label EXCEPT ![j].text = ""],
                      hiddenLabels |-> st.hiddenLabels \cup {j}], i, j + 1, box)
          ELSE ScanB(st, i, j + 1, box)

\* the outer loop of setOverlappingLabelText: every label a = label[i] that
\* this call has not hidden
RECURSIVE ScanA(_, _)
ScanA(st, i) ==
  IF i > Len(st.label) THEN st
  ELSE IF i \in st.hiddenLabels THEN ScanA(st, i + 1)
  ELSE LET a == st.label[i]
           xa0 == a.x - delta
           ya0 == a.y - delta
           xa1 == xa0 + BBox(a).width + delta
           ya1 == ya0 + BBox(a).height + delta
       IN ScanA(ScanB(st, i, 1, [xa0 |-> xa0, ya0 |-> ya0, xa1 |-> xa1, ya1 |-> ya1]),
                i + 1)

\* a plausible slip: every label is tested against every other label as it was
\* drawn, whether or not that one has been hidden in the meantime
setOverlappingLabelText_allPairs(label) ==
  [j \in 1..Len(label) |->
     IF \E i \in 1..Len(label) :
          /\ i # j
          /\ label[i].text # ""
          /\ label[i].text = label[j].text
          /\ label[j].x - (label[i].x - delta) # 0
          /\ label[j].x < label[i].x + label[i].w
          /\ label[j].y > label[i].y - delta
          /\ label[j].y < label[i].y + label[i].h
     THEN [label[j] EXCEPT !.text = ""]
     ELSE label[j]]

\* ScatterPlot.prototype.setOverlappingLabelText: the labels afterwards
setOverlappingLabelText(label) ==
  ScanA([label |-> label, hiddenLabels |-> {}], 1).label

\* new ScatterPlot(params)
NewScatterPlot(showLabels, hideOverlappingLabels) ==
  /\ scatter = None
  /\ scatter' = Some([showLabels |-> showLabels,
                      hideOverlappingLabels |-> hideOverlappingLabels,
                      label |-> <<>>, circle |-> <<>>])
  /\ UNCHANGED <<insts, groups, plots, children, lastCall, heap, defaults>>

\* ScatterPlot.prototype.draw(data), on a plot not drawn before: a circle and
\* a label per datum, then the overlap resolver when labels are shown and
\* overlapping labels are to be hidden
ScatterDraw(data) ==
  /\ IsSome(scatter)
  /\ Val(scatter).label = <<>>
  /\ LET self == Val(scatter)
         label == [k \in 1..Len(data) |->
                     [name |-> data[k].name, text |-> data[k].name,
                      x |-> data[k].x, y |-> data[k].y,
                      w |-> data[k].w, h |-> data[k].h,
                      opacity |-> IF self.showLabels THEN "1" ELSE "0"]]
         circle == [k \in 1..Len(data) |-> [name |-> data[k].name, opacity |-> "unset"]]
     IN scatter' = Some([self EXCEPT
                           !.circle = circle,
                           !.label = IF self.showLabels /\ self.hideOverlappingLabels
                                     THEN setOverlappingLabelText(label)
                                     ELSE label])
  /\ UNCHANGED <<insts, groups, plots, children, lastCall, heap, defaults>>

\* ScatterPlot.prototype.highlightLabel(name)
highlightLabel(self, name) ==
  LET label == [k \in 1..Len(self.label) |->
                  [self.label[k] EXCEPT !.opacity =
                     IF self.label[k].name = name THEN "1"
                     ELSE IF self.showLabels THEN "0.5" ELSE "0"]]
  IN IF self.hideOverlappingLabels THEN setOverlappingLabelText(label) ELSE label

\* ScatterPlot.prototype.removeHighlightLabel(name)
removeHighlightLabel(self) ==
  LET label == [k \in 1..Len(self.label) |->
                  [self.label[k] EXCEPT !.opacity = IF self.showLabels THEN "1" ELSE "0"]]
  IN IF self.showLabels /\ self.hideOverlappingLabels
     THEN setOverlappingLabelText(label) ELSE label

\* ScatterPlot.prototype.highlightCircle(name)
highlightCircle(self, name) ==
  [k \in 1..Len(self.circle) |->
     IF self.circle[k].name # name THEN [self.circle[k] EXCEPT !.opacity = "0.3"]
     ELSE self.circle[k]]

\* ScatterPlot.prototype.removeHighlightCircle(name)
removeHighlightCircle(self) ==
  [k \in 1..Len(self.circle) |-> [self.circle[k] EXCEPT !.opacity = "1"]]

\* the mouseover listener of circle and label k
MouseOver(k) ==
  /\ IsSome(scatter)
  /\ k \in 1..Len(Val(scatter).label)
  /\ LET self == Val(scatter)
         name == self.label[k].name
     IN scatter' = Some([self EXCEPT
                           !.label = IF self.showLabels THEN highlightLabel(self, name)
                                     ELSE self.label,
                           !.circle = highlightCircle(self, name)])
  /\ UNCHANGED <<insts, groups, plots, children, lastCall, heap, defaults>>

\* the mouseout listener of circle and label k
MouseOut(k) ==
  /\ IsSome(scatter)
  /\ k \in 1..Len(Val(scatter).label)
  /\ LET self == Val(scatter)
     IN scatter' = Some([self EXCEPT
                           !.label = IF self.showLabels THEN removeHighlightLabel(self)
                                     ELSE self.label,
                           !.circle = removeHighlightCircle(self)])
  /\ UNCHANGED <<insts, groups, plots, children, lastCall, heap, defaults>>


-----------------------------------------------------------------------------
(* The highlight handlers (src/lib/handlers.js).  They are called from the *)
(* hover callbacks of a plot with a root element and the number of the     *)
(* hovered trace.                                                          *)

\* the page root of the examples, which contains the hosts root1 and root2
Roots == Hosts \cup {"rootDiv"}

\* the elements below a root element, in document order
Descendants(root) ==
  IF root = "rootDiv" THEN children["root1"] \o children["root2"] ELSE children[root]

\* rootDiv.querySelector('.mdsvis-plot'): the first plot element below the
\* root element (as the index of its plot), 0 when there is none
querySelectorPlot(root) ==
  LET d == Descendants(root)
      hits == {c \in 1..Len(d) : d[c].kind = "plot"}
  IN IF hits = {} THEN 0
     ELSE d[CHOOSE c \in hits : \A e \in hits : c <= e].plot

\* Plotly.restyle(plotDiv, {prop: value}, traces): the property is set on the
\* traces with the given 0-offset numbers
restyle(data, prop, value, traces) ==
  [t \in 1..Len(data) |->
     IF (t - 1) \in traces THEN Extend(data[t], [q \in {prop} |-> value])
     ELSE data[t]]

\* Plotly.restyle without trace numbers addresses every trace
AllTraces(data) == 0..(Len(data) - 1)

\* a plausible slip: the target is restored first and then every trace dimmed
highlightGroup_dimLast(root, groupNumber) ==
  /\ querySelectorPlot(root) # 0
  /\ groupNumber \in AllTraces(plots[querySelectorPlot(root)].data)
  /\ LET plotDiv == querySelectorPlot(root)
         data == plots[plotDiv].data
     IN /\ plots' = [plots EXCEPT ![plotDiv].data =
                       restyle(restyle(data, "opacity", TNum("1"), {groupNumber}),
                               "opacity", TNum("0.3"), AllTraces(data))]
        /\ lastCall' = [op |-> "highlightGroup", args |-> NoArgs, err |-> "none",
                        inst |-> plots[plotDiv].owner]
  /\ UNCHANGED <<insts, groups, children, heap, scatter, defaults>>

\* handlers.highlightGroup(rootDiv, groupNumber), for a root element with a
\* plot below it and the number of one of the plot's traces
highlightGroup(root, groupNumber) ==
  /\ querySelectorPlot(root) # 0
  /\ groupNumber \in AllTraces(plots[querySelectorPlot(root)].data)
  /\ LET plotDiv == querySelectorPlot(root)
         data == plots[plotDiv].data
     IN /\ plots' = [plots EXCEPT ![plotDiv].data =
                       restyle(restyle(data, "opacity", TNum("0.3"), AllTraces(data)),
                               "opacity", TNum("1"), {groupNumber})]
        /\ lastCall' = [op |-> "highlightGroup", args |-> NoArgs, err |-> "none",
                        inst |-> plots[plotDiv].owner]
  /\ UNCHANGED <<insts, groups, children, heap, scatter, defaults>>

\* handlers.unhighlight(rootDiv), for a root element with a plot below it
unhighlight(root) ==
  /\ querySelectorPlot(root) # 0
  /\ LET plotDiv == querySelectorPlot(root)
         data == plots[plotDiv].data
     IN /\ plots' = [plots EXCEPT ![plotDiv].data =
                       restyle(data, "opacity", TNum("1"), AllTraces(data))]
        /\ lastCall' = [op |-> "unhighlight", args |-> NoArgs, err |-> "none",
                        inst |-> plots[plotDiv].owner]
  /\ UNCHANGED <<insts, groups, children, heap, scatter, defaults>>

-----------------------------------------------------------------------------
(* Inputs.                                                                 *)

\* M points of dimensionality N, all coordinates distinct
MkCoords(N, M) == [k \in 1..M |-> [d \in 1..N |-> (k - 1) * N + (d - 1)]]

OptDims == {None} \cup {Some(v) : v \in 0..(MaxDim + 1)}

\* options that vary the axis indices, or the label flag
DimOpts ==
  {None}
    \cup {Some([EmptyOpts EXCEPT !.xDim = x, !.yDim = y]) : x \in OptDims, y \in OptDims}
    \cup {Some([EmptyOpts EXCEPT !.showLabels = Some(b)]) : b \in BOOLEAN}

DimInputs ==
  [el : {None, Some("root1")},
   coords : {None, Some(<<>>)} \cup {Some(MkCoords(N, 2)) : N \in 1..MaxDim},
   opts : DimOpts]

\* metadata values: two names and two integer-like strings
Values == {"BM", "10", "2"}

CellTypes == <<"B2", "Mac">>

\* homogeneous metadata for M points: a `tissue` field with any values,
\* alone or next to a `celltype` or a `coord` field
MetaSets(M) ==
  UNION {
    { [k \in 1..M |-> [tissue |-> v[k]]],
      [k \in 1..M |-> [celltype |-> CellTypes[((k - 1) % 2) + 1], tissue |-> v[k]]],
      [k \in 1..M |-> [coord |-> "c0", tissue |-> v[k]]] }
    : v \in [1..M -> Values] }

DataOpts(M) ==
  {None}
    \cup {Some([EmptyOpts EXCEPT !.metadata = Some(m), !.groupByKey = g]) :
            m \in MetaSets(M),
            g \in {None, Some("tissue"), Some("celltype"), Some("coord")}}
    \cup {Some([EmptyOpts EXCEPT !.groupByKey = Some("tissue")])}

DataInputs ==
  UNION { [el : {Some("root1")}, coords : {Some(MkCoords(2, M))}, opts : DataOpts(M)]
          : M \in 1..MaxPoints }

\* the two metadata sets of the shared-page scenario: different field names
MetaA == <<[celltype |-> "B2", tissue |-> "BM"], [celltype |-> "Mac", tissue |-> "LN"]>>
MetaB == <<[tissue |-> "10"], [tissue |-> "2"]>>
MetaC == <<[celltype |-> "B2"], [celltype |-> "Mac"]>>

SharedOpts ==
  {None}
    \cup {Some([EmptyOpts EXCEPT !.metadata = Some(m)]) : m \in {MetaA, MetaB, MetaC}}
    \cup {Some([EmptyOpts EXCEPT !.metadata = Some(MetaA), !.groupByKey = Some("tissue")]),
          Some([EmptyOpts EXCEPT !.groupByKey = Some("tissue")])}

SharedInputs ==
  [el : {Some(h) : h \in Hosts}, coords : {Some(MkCoords(2, 2))}, opts : SharedOpts]

\* the values an earlier engine of the page can have left in the closure
\* variable of getGroupNames
MemoStates == {None, Some(<<"tissue">>), Some(<<"celltype", "tissue">>)}


\* the functions from a subset of the keys K to the values V
PartialFns(K, V) == UNION {[S -> V] : S \in SUBSET K}

\* configuration trees of two levels: a scalar, two arrays, null or a nested
\* object under each of the keys a and b
MergeLeaves == {TInt(1), TArr(<<TInt(1), TInt(2)>>), TArr(<<TInt(3)>>), TNull}

NestedObjects == PartialFns({"x", "y"}, {TInt(1), TInt(2)})

MergeTrees == PartialFns({"a", "b"}, MergeLeaves \cup {TMap(n) : n \in NestedObjects})


\* the layout overrides of the two plots of the shared-page example
LayoutA == [title |-> TStr("First plot"), width |-> TInt(1000)]

LayoutB ==
  [title |-> TStr("Second plot"),
   hovermode |-> TStr("compare"),
   width |-> TInt(1000),
   height |-> TInt(800),
   xaxis |-> TMap([showgrid |-> TBool(TRUE)]),
   yaxis |-> TMap([showgrid |-> TBool(TRUE)])]

LayoutOverrides == {None, Some(LayoutA), Some(LayoutB)}

\* a render-config override that replaces the array of the defaults
ConfigA == [displayModeBar |-> TBool(FALSE), modeBarButtonsToRemove |-> TArr(<<TStr("zoom2d")>>)]

ConfigOverrides == {None, Some(ConfigA)}

\* trace-style overrides: the marker size of the example, and the
\* data-dependent properties that should not be set there
TraceOverrides ==
  {None,
   Some([marker |-> TMap([size |-> TInt(20)])]),
   Some([x |-> TArr(<<TInt(9)>>)]),
   Some([y |-> TArr(<<TInt(9)>>)]),
   Some([text |-> TStr("mine")]),
   Some([name |-> TStr("mine")])}

ConfigOpts ==
  {Some([EmptyOpts EXCEPT !.metadata = m, !.layout = l,
                          !.configOptions = c, !.traceConfig = t]) :
     m \in {None, Some(MetaA)}, l \in LayoutOverrides,
     c \in ConfigOverrides, t \in TraceOverrides}

ConfigInputs ==
  [el : {Some("root1")}, coords : {Some(MkCoords(3, 2))}, opts : ConfigOpts]


\* the places on the screen the scales put a label at
Anchors == {<<0, 0>>, <<2, 0>>, <<10, 4>>, <<0, 4>>, <<30, 0>>, <<10, 12>>}

\* the data of a scatter plot: a name and a screen position, and the extent
\* of the name as text
Datum ==
  {[name |-> n, x |-> p[1], y |-> p[2], w |-> 20, h |-> 10] :
     n \in {"A", "B"}, p \in Anchors}

ScatterData == UNION {[1..M -> Datum] : M \in 1..MaxPoints}


\* metadata for the hover scenario: two cell types, and a tissue of its own
\* for every point
MetaH ==
  [k \in 1..MaxPoints |->
     [celltype |-> CellTypes[((k - 1) % 2) + 1], tissue |-> "T" \o ToString(k)]]

HoverOpts ==
  {None,
   Some([EmptyOpts EXCEPT !.metadata = Some(MetaH)]),
   Some([EmptyOpts EXCEPT !.metadata = Some(MetaH), !.showLabels = Some(TRUE)])}

HoverInputs ==
  [el : {Some(h) : h \in Hosts}, coords : {Some(MkCoords(3, MaxPoints))}, opts : HoverOpts]

\* two engines of one page: the first of the example with its overrides, and
\* one without options
PairOpts ==
  {None,
   Some([EmptyOpts EXCEPT !.metadata = Some(MetaA),
                          !.layout = Some(LayoutA),
                          !.configOptions = Some(ConfigA),
                          !.traceConfig = Some([marker |-> TMap([size |-> TInt(20)])])])}

PairInputs ==
  [el : {Some(h) : h \in Hosts}, coords : {Some(MkCoords(3, 2))}, opts : PairOpts]

\* options for the menu-bar scenario: metadata with one or two fields, with a
\* valid, a reversed, a half-specified or no axis pair, labels shown or not
ViewOpts ==
  {None}
    \cup {Some([EmptyOpts EXCEPT !.metadata = Some(m), !.xDim = d[1], !.yDim = d[2],
                                 !.showLabels = s]) :
            m \in {MetaA, MetaB},
            d \in {<<None, None>>, <<Some(1), Some(3)>>, <<Some(3), Some(1)>>,
                   <<Some(2), None>>},
            s \in {None, Some(TRUE), Some(FALSE)}}

ViewInputs ==
  [el : {Some("root1")}, coords : {Some(MkCoords(N, 2)) : N \in 2..3}, opts : ViewOpts]

\* the trees merged in third place: scalars, arrays, null and nested objects
\* under the keys a and b
ThirdTrees ==
  {NoProps,
   [a |-> TInt(2)],
   [a |-> TNull],
   [a |-> TArr(<<TInt(3)>>)],
   [a |-> TMap(NoProps)],
   [a |-> TMap([x |-> TInt(2)])],
   [a |-> TMap([y |-> TInt(2)])],
   [a |-> TMap([y |-> TInt(2)]), b |-> TInt(2)],
   [a |-> TInt(2), b |-> TMap([x |-> TInt(1), y |-> TInt(1)])]}

-----------------------------------------------------------------------------
(* Specifications.                                                         *)

Idle == [op |-> "init", args |-> NoArgs, err |-> "none", inst |-> 0]

\* the module-level objects as the module's top level leaves them
ModuleDefaults ==
  [layout |-> defaultLayout, configOptions |-> defaultConfig,
   traceConfig |-> defaultTrace]

\* no call of utils.merge observed yet
NoHeap == [op |-> "init", before |-> NoProps, obj |-> NoProps, src |-> NoProps,
           ret |-> "none"]

Init ==
  /\ insts = <<>>
  /\ groups = None
  /\ plots = <<>>
  /\ children = [h \in Hosts |-> <<>>]
  /\ lastCall = Idle
  /\ heap = NoHeap
  /\ scatter = None
  /\ defaults = ModuleDefaults

InitData ==
  /\ insts = <<>>
  /\ groups \in MemoStates
  /\ plots = <<>>
  /\ children = [h \in Hosts |-> <<>>]
  /\ lastCall = Idle
  /\ heap = NoHeap
  /\ scatter = None
  /\ defaults = ModuleDefaults

CreateShared == \E a \in SharedInputs : Create(a, MaxShared)

\* the first engine of a page, from axis-index inputs
CreateDim == \E a \in DimInputs : insts = <<>> /\ Create(a, MaxShared)

\* the first engine of a page, from metadata inputs
CreateData == \E a \in DataInputs : insts = <<>> /\ Create(a, MaxShared)

DrawAny == \E i \in 1..Len(insts) : Draw(i)

DimChangeAny ==
  \E h \in Hosts : \E c \in 1..Len(children[h]) :
    \E k \in 1..Len(children[h][c].dimOptions) : DimChange(h, c, k)

GroupChangeAny ==
  \E h \in Hosts : \E c \in 1..Len(children[h]) :
    \E k \in 1..Len(FieldOrder) : GroupChange(h, c, k)

LabelToggleAny ==
  \E h \in Hosts : \E c \in 1..Len(children[h]) : LabelToggle(h, c)

\* several engines on one page
Next == CreateShared \/ DrawAny \/ DimChangeAny \/ GroupChangeAny \/ LabelToggleAny

Spec == Init /\ [][Next]_vars

\* one engine, every combination of axis indices
NextDim == CreateDim \/ DrawAny \/ DimChangeAny

SpecDim == Init /\ [][NextDim]_vars

\* one engine, every metadata set; the group selector is the transition that
\* regroups (the label checkbox is exercised in Spec)
NextData == CreateData \/ DrawAny \/ DimChangeAny \/ GroupChangeAny

SpecData == InitData /\ [][NextData]_vars


MergeAny ==
  /\ heap.op = "init"
  /\ \E base \in MergeTrees : \E override \in MergeTrees : MergeCall(base, override)

AssignAny == AssignResult("a", TInt(9))

\* utils.merge called on every pair of trees, and the result changed afterwards
NextMerge == MergeAny \/ AssignAny

SpecMerge == Init /\ [][NextMerge]_vars


\* the first engine of a page, from configuration-tree inputs
CreateConfig == insts = <<>> /\ \E a \in ConfigInputs : Create(a, MaxShared)

\* one engine, every combination of configuration overrides
NextConfig == CreateConfig \/ DrawAny \/ DimChangeAny \/ GroupChangeAny

SpecConfig == Init /\ [][NextConfig]_vars


NewScatterPlotAny ==
  \E showLabels \in BOOLEAN : \E hideOverlappingLabels \in BOOLEAN :
    NewScatterPlot(showLabels, hideOverlappingLabels)

ScatterDrawAny ==
  /\ IsSome(scatter)
  /\ Val(scatter).label = <<>>
  /\ \E data \in ScatterData : ScatterDraw(data)

MouseOverAny == \E k \in 1..MaxPoints : MouseOver(k)

MouseOutAny == \E k \in 1..MaxPoints : MouseOut(k)

\* one scatter plot, drawn once and hovered over
NextLabels == NewScatterPlotAny \/ ScatterDrawAny \/ MouseOverAny \/ MouseOutAny

SpecLabels == Init /\ [][NextLabels]_vars


\* the first engine of a page, for the hover scenario
CreateHover == insts = <<>> /\ \E a \in HoverInputs : Create(a, MaxShared)

HighlightAny == \E root \in Roots : \E g \in 0..MaxPoints : highlightGroup(root, g)

UnhighlightAny == \E root \in Roots : unhighlight(root)

\* one engine, hovered over while its view changes
NextHover ==
  \/ CreateHover \/ DrawAny \/ DimChangeAny \/ GroupChangeAny
  \/ HighlightAny \/ UnhighlightAny

SpecHover == Init /\ [][NextHover]_vars

\* src/examples/multiple.js: two engines, the first on root1 with its
\* overrides and the second on root2 without any
CreatePair ==
  /\ Len(insts) < 2
  /\ \E a \in PairInputs :
       /\ a.el = Some(IF insts = <<>> THEN "root1" ELSE "root2")
       /\ (insts = <<>>) = (IsSome(a.opts) /\ IsSome(Val(a.opts).layout))
       /\ Create(a, 2)

NextPair ==
  CreatePair \/ DrawAny \/ DimChangeAny \/ GroupChangeAny

SpecPair == Init /\ [][NextPair]_vars

CreateView == insts = <<>> /\ \E a \in ViewInputs : Create(a, MaxShared)

\* one engine with its whole menu bar: the three selectors in any order
NextView ==
  CreateView \/ DrawAny \/ DimChangeAny \/ GroupChangeAny \/ LabelToggleAny

SpecView == Init /\ [][NextView]_vars

MergeAgainAny == heap.op = "merge" /\ \E third \in ThirdTrees : MergeAgain(third)

\* utils.merge called on every pair of trees, and again with its result
NextAssoc == MergeAny \/ MergeAgainAny

SpecAssoc == Init /\ [][NextAssoc]_vars

DimChangeUnlistedAny ==
  \E h \in Hosts : \E c \in 1..Len(children[h]) :
    \E x \in 0..3 : \E y \in 0..3 : DimChangeUnlisted(h, c, <<x, y>>)

\* one engine with its menu bar, and dimension pairs asked for that the
\* selector does not offer
NextRequest == NextView \/ DimChangeUnlistedAny

SpecRequest == Init /\ [][NextRequest]_vars

-----------------------------------------------------------------------------
(* Properties.                                                             *)

\* the last event was a create() call with a root element and a non-empty
\* coordinate array
CreatedWithHostAndPoints ==
  /\ lastCall.op = "create"
  /\ IsSome(lastCall.args.el)
  /\ IsSome(lastCall.args.coords)
  /\ Len(Val(lastCall.args.coords)) > 0

LastOpts == IF IsSome(lastCall.args.opts) THEN Val(lastCall.args.opts) ELSE EmptyOpts

LastNdim == Len(Val(lastCall.args.coords)[1])

\* the menu bars on the page, each as <<host, position among the host's children>>
MenuBars ==
  UNION { {<<h, c>> : c \in {d \in 1..Len(children[h]) : children[h][d].kind = "menubar"}}
          : h \in Hosts }

LexLess(p, q) == p[1] < q[1] \/ (p[1] = q[1] /\ p[2] < q[2])

\* C1: for every dimensionality N >= 1 the pairs offered by the dimension
\* selector (dimensionPairs(N)) are exactly the pairs (i,j) with
\* 1 <= i < j <= N, each once, in lexicographic order, N(N-1)/2 of them;
\* for N = 4 they are (1,2),(1,3),(1,4),(2,3),(2,4),(3,4).
C1_DimensionPairsCanonical ==
  \A hc \in MenuBars :
    LET pairs == children[hc[1]][hc[2]].dimOptions
        N == insts[children[hc[1]][hc[2]].owner].ndim
    IN /\ Range(pairs) = {q \in (1..N) \X (1..N) : q[1] < q[2]}
       /\ \A a, b \in 1..Len(pairs) : a < b => LexLess(pairs[a], pairs[b])
       /\ 2 * Len(pairs) = N * (N - 1)
       /\ (N = 4 => pairs = << <<1, 2>>, <<1, 3>>, <<1, 4>>,
                               <<2, 3>>, <<2, 4>>, <<3, 4>> >>)

\* C1 happens: a drawn engine on 4-dimensional points offers its six pairs
C1_Witness ==
  \E hc \in MenuBars :
    /\ insts[children[hc[1]][hc[2]].owner].ndim = 4
    /\ Len(children[hc[1]][hc[2]].dimOptions) = 6

\* C2: construction with both axis indices supplied fails with
\* InvalidDimensionPairError whenever (x,y) is not a canonical pair of the
\* points' dimensionality N (descending, equal or out of 1..N), and
\* otherwise succeeds with (x,y) as the active pair.
C2_BothIndicesValidated ==
  (CreatedWithHostAndPoints /\ IsSome(LastOpts.xDim) /\ IsSome(LastOpts.yDim)) =>
    LET x == Val(LastOpts.xDim)
        y == Val(LastOpts.yDim)
    IN IF 1 <= x /\ x < y /\ y <= LastNdim
       THEN /\ lastCall.err = "none"
            /\ lastCall.inst \in 1..Len(insts)
            /\ insts[lastCall.inst].xDim = x
            /\ insts[lastCall.inst].yDim = y
       ELSE /\ lastCall.err = "InvalidDimensionPair"
            /\ lastCall.inst = 0

\* C2 happens: create on 4-dimensional points with the pair [3,1] was rejected
C2_Witness ==
  /\ CreatedWithHostAndPoints
  /\ LastNdim = 4
  /\ LastOpts.xDim = Some(3)
  /\ LastOpts.yDim = Some(1)
  /\ lastCall.err = "InvalidDimensionPair"

\* C3: construction with exactly one of the two axis indices supplied fails
\* with IncompleteDimensionSelectionError whatever the supplied index, and
\* no engine with the default pair is created in its place.
C3_HalfSpecifiedRejected ==
  (CreatedWithHostAndPoints /\ (IsSome(LastOpts.xDim) # IsSome(LastOpts.yDim))) =>
    /\ lastCall.err = "IncompleteDimensionSelection"
    /\ lastCall.inst = 0
    /\ insts = <<>>

\* C3 happens: create with xDim = 1 and no yDim was rejected
C3_Witness ==
  /\ CreatedWithHostAndPoints
  /\ LastOpts.xDim = Some(1)
  /\ LastOpts.yDim = None
  /\ lastCall.err = "IncompleteDimensionSelection"

\* C4: construction fails with MissingCoordinatesError both when the points
\* are absent and when they are present but empty.
C4_MissingCoordinates ==
  (/\ lastCall.op = "create"
   /\ IsSome(lastCall.args.el)
   /\ (~IsSome(lastCall.args.coords) \/ Len(Val(lastCall.args.coords)) = 0)) =>
    lastCall.err = "MissingCoordinates"

\* C5: construction without a host surface fails with MissingHostError
\* whatever the other arguments, and leaves no engine instance and no
\* partially initialised state behind.
C5_MissingHost ==
  (lastCall.op = "create" /\ ~IsSome(lastCall.args.el)) =>
    /\ lastCall.err = "MissingHost"
    /\ lastCall.inst = 0
    /\ insts = <<>>
    /\ groups = None
    /\ plots = <<>>
    /\ \A h \in Hosts : children[h] = <<>>

\* C5 happens: create without a root element and without coordinates failed
C5_Witness ==
  /\ lastCall.op = "create"
  /\ ~IsSome(lastCall.args.el)
  /\ ~IsSome(lastCall.args.coords)
  /\ lastCall.err = "MissingHost"

\* C9: construction with only a host and points of dimensionality N >= 2
\* (options omitted or empty) succeeds and yields the default view state:
\* active pair (1,2), labels hidden, nothing drawn and so no group highlighted.
C9_DefaultViewState ==
  (/\ CreatedWithHostAndPoints
   /\ LastNdim >= 2
   /\ lastCall.args.opts \in {None, Some(EmptyOpts)}) =>
    /\ lastCall.err = "none"
    /\ lastCall.inst \in 1..Len(insts)
    /\ insts[lastCall.inst].xDim = 1
    /\ insts[lastCall.inst].yDim = 2
    /\ insts[lastCall.inst].showLabels = FALSE
    /\ insts[lastCall.inst].plotDiv = 0
    /\ Draws(lastCall.inst) = 0

\* C9 happens: create(el, coords) on 3-dimensional points returned an engine
C9_Witness ==
  /\ CreatedWithHostAndPoints
  /\ LastNdim = 3
  /\ lastCall.args.opts = None
  /\ lastCall.err = "none"

\* the last event was a create() call that returned an engine
Created == lastCall.op = "create" /\ lastCall.err = "none"

LastInst == insts[lastCall.inst]

\* C6: for M points and an optional parallel metadata sequence of length M
\* the binder produces exactly M records in input order, record k pairing
\* points[k] with every field of metadata[k] (no fields without metadata);
\* none is filtered out, duplicated or reordered.
C6_RecordsBound ==
  Created =>
    LET points == Val(lastCall.args.coords)
        data == LastInst.data
    IN /\ Len(data) = Len(points)
       /\ \A k \in 1..Len(data) :
            /\ data[k].coord = Vec(points[k])
            /\ IF IsSome(LastOpts.metadata)
               THEN LET m == Val(LastOpts.metadata)[k]
                    IN /\ DOMAIN data[k] = {"coord"} \cup DOMAIN m
                       /\ \A f \in DOMAIN m : data[k][f] = Str(m[f])
               ELSE DOMAIN data[k] = {"coord"}

\* the field names of an engine's own metadata, sorted
OwnNames(inst) == SortNames(FirstRecordKeys(inst.metadata))

\* C7: groupNames() of an engine returns the sorted field names of the first
\* record of that engine's own metadata, also after engines with other
\* metadata have been constructed, in any order.
C7_GroupNamesOwn ==
  \A i \in 1..Len(insts) :
    insts[i].metadataSupplied =>
      getGroupNames(groups, TRUE, insts[i].metadata).ret = OwnNames(insts[i])

\* C8: with metadata and no groupKey option the initial group key is the
\* lexicographically first field name of that engine's metadata; a groupKey
\* option given with metadata is the initial group key; without metadata the
\* option is ignored and no group key is set.
C8_InitialGroupKey ==
  Created =>
    IF ~IsSome(LastOpts.metadata) THEN LastInst.groupByKey = None
    ELSE IF IsSome(LastOpts.groupByKey) THEN LastInst.groupByKey = LastOpts.groupByKey
    ELSE LastInst.groupByKey =
           (IF Len(OwnNames(LastInst)) > 0 THEN Some(OwnNames(LastInst)[1]) ELSE None)

RECURSIVE SumMembers(_, _)
SumMembers(g, t) == IF t > Len(g) THEN 0 ELSE Len(g[t].members) + SumMembers(g, t + 1)

\* the places <<group, position>> at which record k occurs in the groups g
Occurrences(g, k) ==
  UNION { {<<t, m>> : m \in {n \in 1..Len(g[t].members) : g[t].members[n] = k}}
          : t \in 1..Len(g) }

\* C10: the groups behind the traces of a plot partition the bound records:
\* every record index belongs to exactly one group, none is dropped or
\* duplicated, the member counts sum to M, and there is one trace per group.
C10_GroupsPartition ==
  \A p \in 1..Len(plots) :
    LET g == plots[p].grp
        M == Len(insts[plots[p].owner].data)
    IN /\ \A k \in 1..M : Cardinality(Occurrences(g, k)) = 1
       /\ \A t \in 1..Len(g) : Range(g[t].members) \subseteq 1..M
       /\ SumMembers(g, 1) = M
       /\ Len(plots[p].data) = Len(g)

\* C10 happens: three records with metadata, grouped on a field of the
\* group names, fall into two groups
C10_Witness ==
  \E p \in 1..Len(plots) :
    LET inst == insts[plots[p].owner]
    IN /\ inst.metadataSupplied
       /\ Len(inst.data) = 3
       /\ IsSome(inst.groupByKey)
       /\ Val(inst.groupByKey) \in Range(getGroupNames(groups, TRUE, inst.metadata).ret)
       /\ Val(inst.groupByKey) \in DOMAIN inst.metadata[1]
       /\ Len(plots[p].grp) = 2

\* C11: the groups behind the traces of a plot are ordered by the first
\* appearance of their key value in the records scanned in index order, for
\* every kind of key value (also values that look like integers: 10,10,2,2
\* gives the group of 10 before the group of 2), and within each group the
\* records keep their index order.
C11_FirstAppearanceOrder ==
  \A p \in 1..Len(plots) :
    LET g == plots[p].grp
    IN /\ \A t, u \in 1..Len(g) : t < u => g[t].members[1] < g[u].members[1]
       /\ \A t \in 1..Len(g) : \A m, n \in 1..Len(g[t].members) :
            m < n => g[t].members[m] < g[t].members[n]

\* C12: merge(base, override) returns a new tree and leaves base unchanged at
\* every nesting depth: after the call base equals its value before the
\* call, and later changes to the result do not show in base.
C12_BaseUntouched ==
  heap.op \in {"merge", "assign"} => heap.obj = heap.before

\* the tree merge returned
MergeResult == heap[heap.ret]

\* the right-biased recursive merge of two objects
RECURSIVE RightBiased(_, _)
RightBiased(base, override) ==
  [k \in DOMAIN base \cup DOMAIN override |->
     IF k \notin DOMAIN override THEN base[k]
     ELSE IF override[k].t # "map" THEN override[k]
     ELSE TMap(RightBiased(IF k \in DOMAIN base /\ base[k].t = "map"
                           THEN base[k].m ELSE NoProps,
                           override[k].m))]

\* C13: merge(base, override) is the right-biased recursive merge: keys only
\* in base keep base's value; a plain mapping of override is merged
\* recursively with base's mapping at that key (with an empty mapping when
\* base has none there); any other override value (scalar, array, null) is
\* taken wholesale.  merge({a:1,b:{x:1}},{b:{y:2}}) = {a:1,b:{x:1,y:2}} and
\* merge({a:[1,2]},{a:[3]}) = {a:[3]}.
C13_RightBiasedMerge ==
  heap.op = "merge" =>
    /\ MergeResult = RightBiased(heap.before, heap.src)
    /\ \A k \in DOMAIN heap.before \ DOMAIN heap.src : MergeResult[k] = heap.before[k]
    /\ \A k \in DOMAIN heap.src :
         heap.src[k].t # "map" => MergeResult[k] = heap.src[k]
    /\ (/\ heap.before = [a |-> TInt(1), b |-> TMap([x |-> TInt(1)])]
        /\ heap.src = [b |-> TMap([y |-> TInt(2)])])
         => MergeResult = [a |-> TInt(1), b |-> TMap([x |-> TInt(1), y |-> TInt(2)])]
    /\ (/\ heap.before = [a |-> TArr(<<TInt(1), TInt(2)>>)]
        /\ heap.src = [a |-> TArr(<<TInt(3)>>)])
         => MergeResult = [a |-> TArr(<<TInt(3)>>)]

\* C13 happens: an object was merged over a scalar, an array replaced an
\* array, and a key of base alone was kept
C13_Witness ==
  /\ heap.op = "merge"
  /\ heap.before = [a |-> TArr(<<TInt(1), TInt(2)>>), b |-> TInt(1)]
  /\ heap.src = [a |-> TArr(<<TInt(3)>>), b |-> TMap([y |-> TInt(2)])]
  /\ MergeResult = [a |-> TArr(<<TInt(3)>>), b |-> TMap([y |-> TInt(2)])]

\* C14: at initialization the layout, render-config and trace-style trees are
\* merged independently: each merged tree depends only on its own defaults
\* and its own override, and supplying or changing the override of one tree
\* never changes the merged result of another.
C14_TreesIndependent ==
  Created =>
    LET x == LastInst.xDim
        y == LastInst.yDim
    IN /\ \A c \in ConfigOverrides : \A t \in TraceOverrides :
            initLayoutAndConfig(x, y, LastOpts.layout, c, t).layout = LastInst.layout
       /\ \A l \in LayoutOverrides : \A t \in TraceOverrides :
            initLayoutAndConfig(x, y, l, LastOpts.configOptions, t).configOptions
              = LastInst.configOptions
       /\ \A l \in LayoutOverrides : \A c \in ConfigOverrides :
            initLayoutAndConfig(x, y, l, c, LastOpts.traceConfig).traceConfig
              = LastInst.traceConfig

\* C14 happens: an engine built with a layout override and a trace override
\* but no render-config override has the default render config, the marker
\* size only in its trace style and the title only in its layout
C14_Witness ==
  /\ Created
  /\ LastOpts.layout = Some(LayoutB)
  /\ LastOpts.configOptions = None
  /\ LastOpts.traceConfig = Some([marker |-> TMap([size |-> TInt(20)])])
  /\ LastInst.configOptions = defaultConfig
  /\ LastInst.traceConfig.marker = TMap([size |-> TInt(20)])
  /\ LastInst.layout.title = TStr("Second plot")
  /\ "marker" \notin DOMAIN LastInst.layout

\* the engines that have been drawn
Drawn == {i \in 1..Len(insts) : insts[i].plotDiv # 0}

\* the coordinate of dimension d of the members of a group, in member order
Projection(inst, members, d) ==
  Points([m \in 1..Len(members) |-> CoordAt(inst.data[members[m]], d)])

\* C15: for every group and every active pair (i,j) the trace of the group
\* has x = coord[i-1] and y = coord[j-1] of each member in record index order,
\* x and y as long as the group has members, and the name
\* '<key value> (<member count>)'.
C15_TraceProjection ==
  \A i \in Drawn :
    LET plot == plots[insts[i].plotDiv]
    IN \A t \in 1..Len(plot.data) :
         LET members == plot.grp[t].members
             trace == plot.data[t]
         IN /\ trace.x = Projection(insts[i], members, insts[i].xDim)
            /\ trace.y = Projection(insts[i], members, insts[i].yDim)
            /\ Cardinality(DOMAIN trace.x.m) = Len(members)
            /\ Cardinality(DOMAIN trace.y.m) = Len(members)
            /\ trace.name = TStr(plot.grp[t].key \o " (" \o ToString(Len(members)) \o ")")

\* C16: when the trace-style override contains x, y or text, every built
\* trace still has the x, y and text computed from its own group and the
\* active pair.
C16_IdentityNotOverridden ==
  \A i \in Drawn :
    (DOMAIN insts[i].traceConfig \cap {"x", "y", "text"} # {}) =>
      LET plot == plots[insts[i].plotDiv]
      IN \A t \in 1..Len(plot.data) :
           /\ plot.data[t].x = Projection(insts[i], plot.grp[t].members, insts[i].xDim)
           /\ plot.data[t].y = Projection(insts[i], plot.grp[t].members, insts[i].yDim)
           /\ plot.data[t].text = TStr(plot.grp[t].key)

\* a scatter plot whose labels the overlap resolver has gone over
Resolved ==
  /\ IsSome(scatter)
  /\ Val(scatter).showLabels
  /\ Val(scatter).hideOverlappingLabels
  /\ Len(Val(scatter).label) > 0

SamePlace(a, b) == a.x = b.x /\ a.y = b.y

\* C17: overlap resolution on two labels with the same screen position and
\* different text hides the later-drawn label (its text becomes blank) and
\* leaves the earlier-drawn label visible.
C17_LaterOverlappingHidden ==
  Resolved =>
    LET label == Val(scatter).label
    IN (/\ Len(label) = 2
        /\ SamePlace(label[1], label[2])
        /\ label[1].name # label[2].name)
         => /\ label[1].text = label[1].name
            /\ label[2].text = ""

\* C18: overlap resolution never hides a label because of another label with
\* identical text: two labels with the same text, at any positions, both
\* stay visible.
C18_SameTextNotHidden ==
  Resolved =>
    LET label == Val(scatter).label
    IN (Len(label) = 2 /\ label[1].name = label[2].name)
         => /\ label[1].text = label[1].name
            /\ label[2].text = label[2].name

\* the opacity of every trace of the plot below a root element is `other`,
\* except that of trace number g, which is `target`
Opacities(root, g, target, other) ==
  LET data == plots[querySelectorPlot(root)].data
  IN \A t \in 1..Len(data) :
       /\ "opacity" \in DOMAIN data[t]
       /\ data[t].opacity = IF t - 1 = g THEN target ELSE other

\* C19: after highlightGroup(g) with g a valid group index, group g has
\* opacity 1 and every other group the dimmed opacity 0.3; after
\* unhighlight() every group has opacity 1; both whatever highlightGroup and
\* unhighlight calls came before, so at most one group is ever highlighted.
C19_HighlightOpacity ==
  [][/\ \A root \in Roots : \A g \in 0..MaxPoints :
          highlightGroup(root, g) => Opacities(root, g, TNum("1"), TNum("0.3"))'
     /\ \A root \in Roots :
          unhighlight(root) => Opacities(root, 0, TNum("1"), TNum("1"))']_vars

\* C19 happens: the second of three groups is highlighted, the others dimmed
C19_Witness ==
  /\ lastCall.op = "highlightGroup"
  /\ \E root \in Roots :
       /\ querySelectorPlot(root) # 0
       /\ Len(plots[querySelectorPlot(root)].data) = 3
       /\ Opacities(root, 1, TNum("1"), TNum("0.3"))

\* C20: construction never touches the host: between create(el, coords, opts)
\* and the first draw() nothing has been added to the host, and the plot and
\* the menu bar are added only by draw(): the children of a host are the
\* plot and the menu bar of each draw() on it, and none belongs to an engine
\* that has not been drawn.
C20_HostUntouchedUntilDraw ==
  /\ \A h \in Hosts :
       /\ Len(children[h]) = 2 * Cardinality({p \in 1..Len(plots) : plots[p].host = h})
       /\ \A c \in 1..Len(children[h]) :
            /\ children[h][c].owner \in Drawn
            /\ insts[children[h][c].owner].rootDiv = h
            /\ children[h][c].kind = IF c % 2 = 1 THEN "plot" ELSE "menubar"
  /\ \A i \in 1..Len(insts) :
       Draws(i) = 0 => insts[i].plotDiv = 0 /\ children[insts[i].rootDiv] = <<>>

\* C20 happens: an engine has been constructed and not drawn, and its host
\* is empty
C20_Witness ==
  /\ Created
  /\ LastInst.plotDiv = 0
  /\ children[LastInst.rootDiv] = <<>>
  /\ plots = <<>>

\* the plot divs instance i has created, oldest first
OwnPlots(i) == SelectSeq(plots, LAMBDA p : p.owner = i)

\* C21: an event on one engine leaves every other engine's fields (view
\* state, bound records, merged configuration), its plots' traces and its
\* host's children unchanged, and an engine constructed without overrides
\* gets the unmodified defaults whatever was constructed before it
C21_InstancesDoNotInterfere ==
  [][/\ \A j \in 1..Len(insts) :
          j # lastCall'.inst =>
            /\ insts'[j] = insts[j]
            /\ OwnPlots(j)' = OwnPlots(j)
            /\ children'[insts[j].rootDiv] = children[insts[j].rootDiv]
     /\ (lastCall'.op = "create" /\ lastCall'.err = "none"
           /\ lastCall' # lastCall /\ lastCall'.args.opts = None) =>
          LET inst == insts'[lastCall'.inst]
          IN /\ inst.layout = SetAxisTitles(defaultLayout, 1, 2)
             /\ inst.configOptions = defaultConfig
             /\ inst.traceConfig = defaultTrace]_vars

C21_Witness ==
  /\ Len(insts) = 2
  /\ insts[1].layout.title = TStr("First plot")
  /\ insts[2].layout.title = TStr("MDS Plot")
  /\ Draws(1) > 0
  /\ insts[1].yDim = 3
  /\ lastCall.op = "dimChange" /\ lastCall.inst = 2
  /\ insts[2].xDim = 2

\* the box of label a as drawn with its name, expanded by the margin
BoxOf(a) ==
  [xa0 |-> a.x - delta, ya0 |-> a.y - delta,
   xa1 |-> (a.x - delta) + a.w + delta, ya1 |-> (a.y - delta) + a.h + delta]

\* the test of setOverlappingLabelText on reference label a and label b
Hides(a, b) ==
  /\ a.name = b.name
  /\ b.x - BoxOf(a).xa0 # 0
  /\ b.x < BoxOf(a).xa1
  /\ b.y > BoxOf(a).ya0
  /\ b.y < BoxOf(a).ya1

\* the anchor of label b lies inside the expanded box of label a, on both axes
Inside(a, b) ==
  /\ BoxOf(a).xa0 <= b.x /\ b.x <= BoxOf(a).xa1
  /\ BoxOf(a).ya0 <= b.y /\ b.y <= BoxOf(a).ya1

\* C22: the overlap resolver breaks ties by draw order: a hidden label has
\* been hidden because of a label drawn earlier than it, so the first label
\* in draw order is never hidden.
C22_HiddenOnlyByEarlier ==
  Resolved =>
    LET label == Val(scatter).label
    IN \A k \in 1..Len(label) :
         label[k].text = "" => \E j \in 1..(k - 1) : Hides(label[j], label[k])

\* C23: a label is hidden only if its anchor lies inside the expanded box of
\* another label on both axes; a label whose anchor is outside every other
\* label's box on either axis (left of xA0, say) is not hidden.
C23_HiddenOnlyInsideBox ==
  Resolved =>
    LET label == Val(scatter).label
    IN \A b \in 1..Len(label) :
         label[b].text = "" =>
           \E a \in 1..Len(label) : a # b /\ Inside(label[a], label[b])

\* C27: a label the resolver has hidden is not used as a reference label:
\* when label 1 hides label 2 and label 2's box, but not label 1's, covers
\* the anchor of label 3, label 3 stays visible.
C27_HiddenNotReference ==
  Resolved =>
    LET label == Val(scatter).label
    IN (/\ Len(label) = 3
        /\ Hides(label[1], label[2])
        /\ ~Hides(label[2], label[1])
        /\ ~Hides(label[1], label[3])
        /\ Hides(label[2], label[3]))
         => /\ label[2].text = ""
            /\ label[3].text = label[3].name

C27_Witness ==
  /\ Resolved
  /\ LET label == Val(scatter).label
     IN /\ Len(label) = 3
        /\ <<label[1].x, label[1].y>> = <<0, 0>>
        /\ <<label[2].x, label[2].y>> = <<10, 4>>
        /\ <<label[3].x, label[3].y>> = <<10, 12>>
        /\ label[1].name = label[2].name /\ label[2].name = label[3].name
        /\ Hides(label[1], label[2]) /\ Hides(label[2], label[3])
        /\ ~Hides(label[1], label[3])
        /\ label[1].text = label[1].name
        /\ label[2].text = ""
        /\ label[3].text = label[3].name

\* C25: an engine never holds a group key outside its group names: whenever
\* metadata has been supplied, the active group key is one of the names
\* groupNames() returns (or one of the field names of the engine's own
\* metadata), in every reachable state.
C25_GroupKeyKnown ==
  \A i \in 1..Len(insts) :
    insts[i].metadataSupplied =>
      /\ IsSome(insts[i].groupByKey)
      /\ Val(insts[i].groupByKey) \in
           Range(getGroupNames(groups, TRUE, insts[i].metadata).ret)
             \cup Range(OwnNames(insts[i]))

\* C29: bound record k keeps points[k] as its coordinate vector whatever the
\* field names of the metadata are (also a field named coord), and the x and
\* y of every trace are coordinates of the input points.
C29_CoordIsPoint ==
  \A i \in 1..Len(insts) :
    /\ \A k \in 1..Len(insts[i].coords) :
         insts[i].data[k].coord = Vec(insts[i].coords[k])
    /\ i \in Drawn =>
         LET plot == plots[insts[i].plotDiv]
         IN \A t \in 1..Len(plot.data) :
              LET members == plot.grp[t].members
              IN /\ plot.data[t].x =
                      Points([m \in 1..Len(members) |->
                                insts[i].coords[members[m]][insts[i].xDim]])
                 /\ plot.data[t].y =
                      Points([m \in 1..Len(members) |->
                                insts[i].coords[members[m]][insts[i].yDim]])

\* C30: for points of dimensionality N >= 2 the active pair of an engine is
\* canonical in every reachable state: 1 <= xDim < yDim <= N, after
\* construction and after every dimension-selector change, group-selector
\* change and label toggle.
C30_ActivePairCanonical ==
  \A i \in 1..Len(insts) :
    insts[i].ndim >= 2 =>
      /\ 1 <= insts[i].xDim
      /\ insts[i].xDim < insts[i].yDim
      /\ insts[i].yDim <= insts[i].ndim

\* C30 happens: the dimension selector of an engine on 3-dimensional points
\* has been set to (2,3), and then the labels have been switched on and the
\* group key changed
C30_Witness ==
  /\ lastCall.op = "groupChange"
  /\ insts[lastCall.inst].ndim = 3
  /\ insts[lastCall.inst].xDim = 2
  /\ insts[lastCall.inst].yDim = 3
  /\ insts[lastCall.inst].showLabels
  /\ insts[lastCall.inst].groupByKey = Some("tissue")

\* C28: a dimension-pair change leaves the group key and the label flag
\* unchanged, a group-key change leaves the active pair and the label flag
\* unchanged, a label toggle leaves the active pair and the group key
\* unchanged, and no event changes the bound records of an engine.
C28_FrameConditions ==
  [][\A i \in 1..Len(insts) :
       LET old == insts[i]
           new == insts'[i]
       IN /\ new.data = old.data
          /\ new.data = IF old.metadataSupplied
                        THEN BindRecords(old.coords, old.metadata)
                        ELSE [k \in 1..Len(old.coords) |-> [coord |-> Vec(old.coords[k])]]
          /\ lastCall'.op = "dimChange" =>
               new.groupByKey = old.groupByKey /\ new.showLabels = old.showLabels
          /\ lastCall'.op = "groupChange" =>
               /\ new.xDim = old.xDim /\ new.yDim = old.yDim
               /\ new.showLabels = old.showLabels
          /\ lastCall'.op = "labelToggle" =>
               /\ new.xDim = old.xDim /\ new.yDim = old.yDim
               /\ new.groupByKey = old.groupByKey]_vars

\* C28 happens: the labels have been switched on for an engine whose pair and
\* group key are not the initial ones
C28_Witness ==
  /\ lastCall.op = "labelToggle"
  /\ insts[lastCall.inst].showLabels
  /\ insts[lastCall.inst].xDim = 2
  /\ insts[lastCall.inst].yDim = 3
  /\ insts[lastCall.inst].groupByKey = Some("tissue")
  /\ Len(insts[lastCall.inst].data) = 2

\* no key path holds a plain object in one of the trees and another kind of
\* value in another of them
RECURSIVE NoKindCollision(_)
NoKindCollision(trees) ==
  \A k \in UNION {DOMAIN t : t \in trees} :
    LET vals == {t[k] : t \in {u \in trees : k \in DOMAIN u}}
    IN \/ \A v \in vals : ~IsPlainObject(v)
       \/ /\ \A v \in vals : IsPlainObject(v)
          /\ NoKindCollision({v.m : v \in vals})

\* C26: merge is associative on trees without a collision of kinds:
\* merge(merge(A, B), C) = merge(A, merge(B, C)) whenever no key path holds a
\* plain object in one of A, B, C and another kind of value in another.
C26_MergeAssociative ==
  [][(heap'.op = "merge2" /\ heap.op = "merge"
        /\ NoKindCollision({heap.before, heap.src, heap'.src})) =>
       heap'.obj = merge(heap.before, merge(heap.src, heap'.src))]_vars

\* C26 happens: {a: {x: 1}} merged with {b: [3]} and then with {a: {y: 2}}
C26_Witness ==
  /\ heap.op = "merge2"
  /\ heap.before = [a |-> TMap([x |-> TInt(1)]), b |-> TArr(<<TInt(3)>>)]
  /\ heap.src = [a |-> TMap([y |-> TInt(2)])]
  /\ heap.obj = [a |-> TMap([x |-> TInt(1), y |-> TInt(2)]), b |-> TArr(<<TInt(3)>>)]

\* C24: a dimension-pair change is validated before anything changes: a pair
\* that is not in dimensionPairs(N) fails with InvalidDimensionPairError or
\* IncompleteDimensionSelectionError and leaves the engines and the traces of
\* their plots unchanged; a pair of dimensionPairs(N) becomes the active pair
\* and the traces of the current plot are recomputed from it.
C24_PairChangeValidated ==
  [][lastCall'.op = "dimChange" =>
       LET i == lastCall'.inst
       IN IF lastCall'.args = NoArgs
          THEN /\ lastCall'.err = "none"
               /\ \E k \in 1..Len(dimensionPairs(insts[i].ndim)) :
                    dimensionPairs(insts[i].ndim)[k] = <<insts'[i].xDim, insts'[i].yDim>>
               /\ plots'[insts'[i].plotDiv].data = getTraces(insts'[i])
          ELSE /\ lastCall'.err \in {"InvalidDimensionPair", "IncompleteDimensionSelection"}
               /\ insts' = insts
               /\ plots' = plots]_vars

====
